---- MODULE Spec2Model ----
(***************************************************************************)
(* Model of sympy/physics/mechanics/_actuator.py: the actuator classes     *)
(* ActuatorBase, ForceActuator and TorqueActuator, their validating        *)
(* property setters, their constructors and to_loads().                    *)
(*                                                                         *)
(* The model follows one client variable `obj` (an actuator, once one has  *)
(* been constructed), the lists returned by to_loads() that the client     *)
(* still holds (`lists`, by identity), and the outcome of the last call.   *)
(***************************************************************************)
EXTENDS Integers, Sequences, FiniteSets

\* Magnitudes of the symbolic scalars handed to the actuators: 1..MaxMag.
MaxMag == 2
\* Number of lists returned by to_loads() that the client keeps.
MaxLists == 2

VARIABLES
    obj,        \* the actuator bound to the client's variable, or NoObj
    lists,      \* the list objects returned so far: identity (index) -> content
    ret,        \* the list reference returned by the last to_loads() (0: none)
    err,        \* the exception raised by the last call, or NoErr
    op          \* the last call: its name, the attribute assigned, the argument(s)

vars == <<obj, lists, ret, err, op>>

----------------------------------------------------------------------------
(* Values of the collaborating types (imports, lines 17-30).               *)

\* A sympy Expr: a symbolic scalar, abstracted to the integer it stands for.
Expr(k) == [type |-> "Expr", val |-> k]
\* A sympy.physics Vector: a frame-attached 3-vector, by its measure numbers.
Vec(c) == [type |-> "Vector", comp |-> c]
ReferenceFrame(n) == [type |-> "ReferenceFrame", name |-> n]
\* A RigidBody owns a ReferenceFrame, its attribute `frame`.
RigidBody(f) == [type |-> "RigidBody", frame |-> f]
\* A LinearPathway between two points; dir is the unit vector from pA to pB.
LinearPathway(a, b, d) == [type |-> "PathwayBase", pA |-> a, pB |-> b, dir |-> d]
PinJoint(ax, p, c) ==
    [type |-> "PinJoint", joint_axis |-> ax, parent_interframe |-> p,
     child_interframe |-> c]
None == [type |-> "NoneType"]
\* A plain Python number: an instance of none of the required types.
Num == [type |-> "int"]
\* An attribute that has not been assigned yet.
Unset == [type |-> "unset"]

Exprs == {Expr(k) : k \in 1..MaxMag}
Vectors == {Vec(<<0, 0, 1>>)}
Frames == {ReferenceFrame("N"), ReferenceFrame("A")}
Bodies == {RigidBody(f) : f \in Frames}
Pathways ==
    {LinearPathway("pA", "pB", Vec(<<1, 0, 0>>)),
     LinearPathway("pB", "pA", Vec(<<0, 0, 1>>))}
PinJoints ==
    {PinJoint(ax, p, c) : ax \in Vectors, p \in Frames, c \in Frames}

\* Values of the wrong type that a client passes by mistake: a plain number,
\* None, and a value meant for another parameter.
Misfits ==
    {Num, None, Expr(1), Vec(<<0, 0, 1>>), ReferenceFrame("N")}

isinstance(v, cls) == v.type = cls

\* Expr.__neg__, Expr * Vector, Vector + Vector.
Neg(e) == Expr(-e.val)
Mul(e, v) == Vec([i \in 1..3 |-> e.val * v.comp[i]])
VecAdd(v, w) == Vec([i \in 1..3 |-> v.comp[i] + w.comp[i]])
ZeroVector == Vec(<<0, 0, 0>>)

\* The load types: Torque(frame, vector) and Force(point, vector).
Torque(f, v) == [load |-> "Torque", loc |-> f, vec |-> v]
Force(p, v) == [load |-> "Force", loc |-> p, vec |-> v]

----------------------------------------------------------------------------
(* Exceptions and call results.                                            *)

NoErr == [exc |-> "none"]
\* The TypeError of a setter: its message names the attribute.
TypeError(attr) == [exc |-> "TypeError", attr |-> attr]
\* A call on `self` either returns (the object as it now is) or raises.
Ok(self) == [self |-> self, err |-> NoErr]
Raise(self, attr) == [self |-> self, err |-> TypeError(attr)]

NoObj == [cls |-> "NoObj"]

----------------------------------------------------------------------------
(* Python lists, by identity.                                              *)

\* Mutant: the list is built once and the same list object handed out again.
NewList_cached(heap, content) ==
    IF heap = <<>>
    THEN [heap |-> <<content>>, ref |-> 1]
    ELSE [heap |-> heap, ref |-> Len(heap)]

\* A list display `[x, ...]`: a new list object, distinct from every other.
NewList(heap, content) ==
    [heap |-> Append(heap, content), ref |-> Len(heap) + 1]
\* list.append: in place.
ListAppend(heap, ref, x) == [heap EXCEPT ![ref] = Append(@, x)]

\* PathwayBase.compute_loads (sympy/physics/mechanics/_pathway.py): a new
\* list of two forces along the pathway, equal and opposite, pushing the
\* two points apart when the force is positive.
compute_loads(pathway, force, heap) ==
    NewList(heap, <<Force(pathway.pA, Mul(Neg(force), pathway.dir)),
                    Force(pathway.pB, Mul(force, pathway.dir))>>)

----------------------------------------------------------------------------
(* class ActuatorBase(ABC)                                                 *)

Bases(c) == IF c = "ActuatorBase" THEN {} ELSE {"ActuatorBase"}
\* The methods a class body declares with @abstractmethod.
DeclaredAbstract(c) == IF c = "ActuatorBase" THEN {"to_loads"} ELSE {}
\* The methods a class body defines without @abstractmethod.
DefinedConcrete(c) ==
    CASE c = "ActuatorBase" -> {"__init__", "__repr__"}
      [] c = "ForceActuator" -> {"__init__", "to_loads", "__repr__"}
      [] c = "TorqueActuator" ->
            {"__init__", "at_pin_joint", "to_loads", "__repr__"}
\* Mutant: to_loads is not marked abstract.
abstractmethods_unmarked(c) == {}

\* ABCMeta's __abstractmethods__: the class's own abstract methods and the
\* inherited ones it does not override.
abstractmethods(c) ==
    DeclaredAbstract(c) \cup
    {m \in UNION {DeclaredAbstract(b) : b \in Bases(c)} : m \notin DefinedConcrete(c)}
\* Instantiating a class with abstract methods raises TypeError.
CanInstantiate(c) == abstractmethods(c) = {}
AbstractError == [exc |-> "TypeError", attr |-> "abstract"]

\* ActuatorBase.__init__
ActuatorBase_init(self) == Ok(self)

----------------------------------------------------------------------------
(* class ForceActuator                                                     *)

force_setter(self, force) ==
    IF ~isinstance(force, "Expr")
    THEN Raise(self, "force")
    ELSE Ok([self EXCEPT !.force = force])

pathway_setter(self, pathway) ==
    IF ~isinstance(pathway, "PathwayBase")
    THEN Raise(self, "pathway")
    ELSE Ok([self EXCEPT !.pathway = pathway])

ForceActuator_new == [cls |-> "ForceActuator", force |-> Unset, pathway |-> Unset]

ForceActuator_init(self, force, pathway) ==
    LET r1 == force_setter(self, force) IN
    IF r1.err # NoErr THEN r1 ELSE
    LET r2 == pathway_setter(r1.self, pathway) IN
    IF r2.err # NoErr THEN r2 ELSE
    ActuatorBase_init(r2.self)

\* Mutant: the force is handed to the pathway with its sign flipped.
ForceActuator_to_loads_flipped(self, heap) ==
    compute_loads(self.pathway, Neg(self.force), heap)

ForceActuator_to_loads(self, heap) ==
    compute_loads(self.pathway, self.force, heap)

----------------------------------------------------------------------------
(* class TorqueActuator                                                    *)

\* Mutant: the torque is stored first and checked afterwards.
torque_setter_stores_first(self, torque) ==
    IF ~isinstance(torque, "Expr")
    THEN Raise([self EXCEPT !.torque = torque], "torque")
    ELSE Ok([self EXCEPT !.torque = torque])

torque_setter(self, torque) ==
    IF ~isinstance(torque, "Expr")
    THEN Raise(self, "torque")
    ELSE Ok([self EXCEPT !.torque = torque])

\* Mutant: the axis is stored unchecked.
axis_setter_unchecked(self, axis) == Ok([self EXCEPT !.axis = axis])

axis_setter(self, axis) ==
    IF ~isinstance(axis, "Vector")
    THEN Raise(self, "axis")
    ELSE Ok([self EXCEPT !.axis = axis])

\* Mutant: a body is stored as it is, its frame is not taken.
target_frame_setter_keeps_body(self, target_frame) ==
    IF isinstance(target_frame, "RigidBody")
    THEN Ok([self EXCEPT !.target_frame = target_frame])
    ELSE IF ~isinstance(target_frame, "ReferenceFrame")
    THEN Raise(self, "target_frame")
    ELSE Ok([self EXCEPT !.target_frame = target_frame])

target_frame_setter(self, target_frame) ==
    IF isinstance(target_frame, "RigidBody")
    THEN Ok([self EXCEPT !.target_frame = target_frame.frame])
    ELSE IF ~isinstance(target_frame, "ReferenceFrame")
    THEN Raise(self, "target_frame")
    ELSE Ok([self EXCEPT !.target_frame = target_frame])

\* Mutant: None is validated like any other value, and rejected.
reaction_frame_setter_rejects_none(self, reaction_frame) ==
    IF isinstance(reaction_frame, "RigidBody")
    THEN Ok([self EXCEPT !.reaction_frame = reaction_frame.frame])
    ELSE IF ~isinstance(reaction_frame, "ReferenceFrame")
    THEN Raise(self, "reaction_frame")
    ELSE Ok([self EXCEPT !.reaction_frame = reaction_frame])

reaction_frame_setter(self, reaction_frame) ==
    IF isinstance(reaction_frame, "RigidBody")
    THEN Ok([self EXCEPT !.reaction_frame = reaction_frame.frame])
    ELSE IF ~isinstance(reaction_frame, "ReferenceFrame") /\ reaction_frame # None
    THEN Raise(self, "reaction_frame")
    ELSE Ok([self EXCEPT !.reaction_frame = reaction_frame])

TorqueActuator_new ==
    [cls |-> "TorqueActuator", torque |-> Unset, axis |-> Unset,
     target_frame |-> Unset, reaction_frame |-> Unset]

\* Mutant: the frames are assigned before the torque and the axis.
TorqueActuator_init_frames_first(self, torque, axis, target_frame, reaction_frame) ==
    LET r1 == target_frame_setter(self, target_frame) IN
    IF r1.err # NoErr THEN r1 ELSE
    LET r2 == reaction_frame_setter(r1.self, reaction_frame) IN
    IF r2.err # NoErr THEN r2 ELSE
    LET r3 == torque_setter(r2.self, torque) IN
    IF r3.err # NoErr THEN r3 ELSE
    LET r4 == axis_setter(r3.self, axis) IN
    IF r4.err # NoErr THEN r4 ELSE
    ActuatorBase_init(r4.self)

TorqueActuator_init(self, torque, axis, target_frame, reaction_frame) ==
    LET r1 == torque_setter(self, torque) IN
    IF r1.err # NoErr THEN r1 ELSE
    LET r2 == axis_setter(r1.self, axis) IN
    IF r2.err # NoErr THEN r2 ELSE
    LET r3 == target_frame_setter(r2.self, target_frame) IN
    IF r3.err # NoErr THEN r3 ELSE
    LET r4 == reaction_frame_setter(r3.self, reaction_frame) IN
    IF r4.err # NoErr THEN r4 ELSE
    ActuatorBase_init(r4.self)

\* Mutant: the joint's child is the target and its parent the reaction.
at_pin_joint_child_target(torque, pin_joint) ==
    IF ~isinstance(pin_joint, "PinJoint")
    THEN Raise(TorqueActuator_new, "pin_joint")
    ELSE TorqueActuator_init(TorqueActuator_new, torque, pin_joint.joint_axis,
                             pin_joint.child_interframe,
                             pin_joint.parent_interframe)

\* The classmethod: cls(torque, joint_axis, parent_interframe, child_interframe).
at_pin_joint(torque, pin_joint) ==
    IF ~isinstance(pin_joint, "PinJoint")
    THEN Raise(TorqueActuator_new, "pin_joint")
    ELSE TorqueActuator_init(TorqueActuator_new, torque, pin_joint.joint_axis,
                             pin_joint.parent_interframe,
                             pin_joint.child_interframe)

\* Mutant: the reaction torque is not negated.
TorqueActuator_to_loads_same_sign(self, heap) ==
    LET loads == NewList(heap, <<Torque(self.target_frame,
                                        Mul(self.torque, self.axis))>>)
    IN  IF self.reaction_frame # None
        THEN [heap |-> ListAppend(loads.heap, loads.ref,
                                  Torque(self.reaction_frame,
                                         Mul(self.torque, self.axis))),
              ref |-> loads.ref]
        ELSE loads

\* Mutant: the reaction load is appended whatever reaction_frame is.
TorqueActuator_to_loads_always_pair(self, heap) ==
    LET loads == NewList(heap, <<Torque(self.target_frame,
                                        Mul(self.torque, self.axis))>>)
    IN  [heap |-> ListAppend(loads.heap, loads.ref,
                             Torque(self.reaction_frame,
                                    Mul(Neg(self.torque), self.axis))),
         ref |-> loads.ref]

TorqueActuator_to_loads(self, heap) ==
    LET loads == NewList(heap, <<Torque(self.target_frame,
                                        Mul(self.torque, self.axis))>>)
    IN  IF self.reaction_frame # None
        THEN [heap |-> ListAppend(loads.heap, loads.ref,
                                  Torque(self.reaction_frame,
                                         Mul(Neg(self.torque), self.axis))),
              ref |-> loads.ref]
        ELSE loads

----------------------------------------------------------------------------
(* The client's calls.                                                     *)

Init ==
    /\ obj = NoObj
    /\ lists = <<>>
    /\ ret = 0
    /\ err = NoErr
    /\ op = [name |-> "start"]

\* `actuator = cls(...)`: the name is bound only when __init__ returns. The
\* model follows the first actuator the client gets, so a constructor is
\* called only while there is none.
Construct(r, call) ==
    /\ obj = NoObj
    /\ obj' = IF r.err = NoErr THEN r.self ELSE obj
    /\ err' = r.err
    /\ op' = call
    /\ UNCHANGED <<lists, ret>>

\* actuator = ActuatorBase()
NewActuatorBase ==
    /\ obj = NoObj
    /\ IF CanInstantiate("ActuatorBase")
       THEN obj' = ActuatorBase_init([cls |-> "ActuatorBase"]).self /\ err' = NoErr
       ELSE obj' = obj /\ err' = AbstractError
    /\ op' = [name |-> "ActuatorBase"]
    /\ UNCHANGED <<lists, ret>>

\* actuator = ForceActuator(force, pathway)
NewForceActuator ==
    \E force \in Exprs \cup {Num, None}, pathway \in Pathways \cup {Num, None} :
        /\ CanInstantiate("ForceActuator")
        /\ Construct(ForceActuator_init(ForceActuator_new, force, pathway),
                     [name |-> "ForceActuator", args |-> <<force, pathway>>])

\* actuator = TorqueActuator(torque, axis, target_frame, reaction_frame)
NewTorqueActuator ==
    \E torque \in Exprs \cup {Num}, axis \in Vectors \cup {Num},
       target_frame \in Frames \cup Bodies \cup {Num, None},
       reaction_frame \in Frames \cup Bodies \cup {Num, None} :
        /\ CanInstantiate("TorqueActuator")
        /\ Construct(TorqueActuator_init(TorqueActuator_new, torque, axis,
                                         target_frame, reaction_frame),
                     [name |-> "TorqueActuator",
                      args |-> <<torque, axis, target_frame, reaction_frame>>])

\* actuator = TorqueActuator.at_pin_joint(torque, pin_joint)
NewAtPinJoint ==
    \E torque \in Exprs \cup {Num}, pin_joint \in PinJoints \cup Frames \cup {None} :
        /\ CanInstantiate("TorqueActuator")
        /\ Construct(at_pin_joint(torque, pin_joint),
                     [name |-> "at_pin_joint", args |-> <<torque, pin_joint>>])

\* `actuator.<attr> = value` on an existing actuator: the setter works on the
\* object itself, so the object is afterwards what the setter left, whether it
\* returned or raised.
Assign(r, attr, value) ==
    /\ obj' = r.self
    /\ err' = r.err
    /\ op' = [name |-> "set", attr |-> attr, arg |-> value]
    /\ UNCHANGED <<lists, ret>>

SetForce ==
    \E v \in Exprs \cup Misfits :
        obj.cls = "ForceActuator" /\ Assign(force_setter(obj, v), "force", v)

SetPathway ==
    \E v \in Pathways \cup Misfits :
        obj.cls = "ForceActuator" /\ Assign(pathway_setter(obj, v), "pathway", v)

SetTorque ==
    \E v \in Exprs \cup Misfits :
        obj.cls = "TorqueActuator" /\ Assign(torque_setter(obj, v), "torque", v)

SetAxis ==
    \E v \in Vectors \cup Misfits :
        obj.cls = "TorqueActuator" /\ Assign(axis_setter(obj, v), "axis", v)

SetTargetFrame ==
    \E v \in Frames \cup Bodies \cup Misfits :
        /\ obj.cls = "TorqueActuator"
        /\ Assign(target_frame_setter(obj, v), "target_frame", v)

SetReactionFrame ==
    \E v \in Frames \cup Bodies \cup Misfits :
        /\ obj.cls = "TorqueActuator"
        /\ Assign(reaction_frame_setter(obj, v), "reaction_frame", v)

\* loads = actuator.to_loads()
ToLoads ==
    /\ obj.cls \in {"ForceActuator", "TorqueActuator"}
    /\ Len(lists) < MaxLists
    /\ LET r == IF obj.cls = "ForceActuator"
                THEN ForceActuator_to_loads(obj, lists)
                ELSE TorqueActuator_to_loads(obj, lists)
       IN  lists' = r.heap /\ ret' = r.ref
    /\ err' = NoErr
    /\ op' = [name |-> "to_loads"]
    /\ UNCHANGED obj

\* The client empties a list it was returned: loads.clear()
ClearList ==
    \E i \in DOMAIN lists :
        /\ lists' = [lists EXCEPT ![i] = <<>>]
        /\ err' = NoErr
        /\ op' = [name |-> "clear", ref |-> i]
        /\ UNCHANGED <<obj, ret>>

Next ==
    \/ NewActuatorBase
    \/ NewForceActuator
    \/ NewTorqueActuator
    \/ NewAtPinJoint
    \/ SetForce
    \/ SetPathway
    \/ SetTorque
    \/ SetAxis
    \/ SetTargetFrame
    \/ SetReactionFrame
    \/ ToLoads
    \/ ClearList

Spec == Init /\ [][Next]_vars

----------------------------------------------------------------------------
(* What the properties below read off a state.                             *)

IsForce == obj.cls = "ForceActuator"
IsTorque == obj.cls = "TorqueActuator"
\* The content of the list the last to_loads() returned.
Returned == lists[ret]
\* The negation of a vector, measure number by measure number.
VecNeg(v) == Vec([i \in 1..3 |-> 0 - v.comp[i]])
\* The types each validated attribute accepts.
Accepts(attr) ==
    CASE attr \in {"force", "torque"} -> {"Expr"}
      [] attr = "pathway" -> {"PathwayBase"}
      [] attr = "axis" -> {"Vector"}
      [] attr = "target_frame" -> {"ReferenceFrame", "RigidBody"}
      [] attr = "reaction_frame" -> {"ReferenceFrame", "RigidBody", "NoneType"}
WrongType(attr, v) == v.type \notin Accepts(attr)
\* The constructors' attributes, in assignment order.
ForceAttrs == <<"force", "pathway">>
TorqueAttrs == <<"torque", "axis", "target_frame", "reaction_frame">>
\* The positions of the wrongly typed arguments of a constructor call.
WrongArgs(attrs, args) == {i \in DOMAIN attrs : WrongType(attrs[i], args[i])}
\* The frame a frame-or-body argument stands for.
FrameOf(v) == IF v \in Bodies THEN v.frame ELSE v
FirstOf(S) == CHOOSE i \in S : \A j \in S : i <= j

----------------------------------------------------------------------------
\* C1: after to_loads() on a ForceActuator the returned list is exactly
\* pathway.compute_loads(force) for the stored pathway and the stored force:
\* the same two loads in the same order, nothing added, removed or changed.
C1_ForceDelegation ==
    (op.name = "to_loads" /\ IsForce) =>
        /\ ret \in DOMAIN lists
        /\ Returned = compute_loads(obj.pathway, obj.force, <<>>).heap[1]
        /\ Returned = <<Force(obj.pathway.pA, VecNeg(Mul(obj.force, obj.pathway.dir))),
                        Force(obj.pathway.pB, Mul(obj.force, obj.pathway.dir))>>

C1_Witness ==
    /\ op.name = "to_loads"
    /\ IsForce
    /\ obj.force = Expr(2)
    /\ Len(Returned) = 2

\* C2: after to_loads() on a TorqueActuator whose reaction_frame is not None
\* the returned list is (target_frame, torque*axis) followed by
\* (reaction_frame, -torque*axis), and the two vectors sum to zero.
C2_TorquePair ==
    (op.name = "to_loads" /\ IsTorque /\ obj.reaction_frame # None) =>
        /\ ret \in DOMAIN lists
        /\ Returned = <<Torque(obj.target_frame, Mul(obj.torque, obj.axis)),
                        Torque(obj.reaction_frame,
                               VecNeg(Mul(obj.torque, obj.axis)))>>
        /\ VecAdd(Returned[1].vec, Returned[2].vec) = ZeroVector

C2_Witness ==
    /\ op.name = "to_loads"
    /\ IsTorque
    /\ obj.reaction_frame = ReferenceFrame("A")
    /\ obj.target_frame = ReferenceFrame("N")
    /\ obj.torque = Expr(2)
    /\ Len(Returned) = 2

\* C3: after to_loads() on a TorqueActuator whose reaction_frame is None the
\* returned list holds the single load (target_frame, torque*axis).
C3_TorqueOneSided ==
    (op.name = "to_loads" /\ IsTorque /\ obj.reaction_frame = None) =>
        /\ ret \in DOMAIN lists
        /\ Returned = <<Torque(obj.target_frame, Mul(obj.torque, obj.axis))>>

C3_Witness ==
    /\ op.name = "to_loads"
    /\ IsTorque
    /\ obj.reaction_frame = None
    /\ Len(Returned) = 1

\* C4: at_pin_joint(torque, joint) with a valid torque and pin joint returns
\* an actuator whose torque is the one given, whose axis is the joint's axis,
\* whose target is the joint's parent interframe and whose reaction is the
\* joint's child interframe: the actuator, and so the loads, that
\* TorqueActuator(torque, joint_axis, parent_interframe, child_interframe) gives.
C4_AtPinJoint ==
    (/\ op.name = "at_pin_joint"
     /\ op.args[1] \in Exprs
     /\ op.args[2] \in PinJoints) =>
        LET torque == op.args[1]
            joint == op.args[2]
        IN  /\ err = NoErr
            /\ obj = [cls |-> "TorqueActuator", torque |-> torque,
                      axis |-> joint.joint_axis,
                      target_frame |-> joint.parent_interframe,
                      reaction_frame |-> joint.child_interframe]
            /\ obj = TorqueActuator_init(TorqueActuator_new, torque,
                                         joint.joint_axis,
                                         joint.parent_interframe,
                                         joint.child_interframe).self
            /\ TorqueActuator_to_loads(obj, <<>>).heap[1] =
                   <<Torque(joint.parent_interframe, Mul(torque, joint.joint_axis)),
                     Torque(joint.child_interframe,
                            VecNeg(Mul(torque, joint.joint_axis)))>>

C4_Witness ==
    /\ op.name = "at_pin_joint"
    /\ err = NoErr
    /\ obj.target_frame = ReferenceFrame("N")
    /\ obj.reaction_frame = ReferenceFrame("A")

\* C5: the stored target_frame is always a frame and the stored
\* reaction_frame always a frame or None, never a body; assigning a body, in
\* the constructor or later, stores the body's frame, which is what assigning
\* that frame stores.
C5_BodyResolved ==
    /\ IsTorque =>
        /\ obj.target_frame \in Frames
        /\ obj.reaction_frame \in Frames \cup {None}
    /\ (op.name = "set" /\ op.attr = "target_frame" /\ op.arg \in Bodies) =>
        /\ err = NoErr
        /\ obj.target_frame = op.arg.frame
        /\ obj = target_frame_setter(obj, op.arg.frame).self
    /\ (op.name = "set" /\ op.attr = "reaction_frame" /\ op.arg \in Bodies) =>
        /\ err = NoErr
        /\ obj.reaction_frame = op.arg.frame
        /\ obj = reaction_frame_setter(obj, op.arg.frame).self
    /\ (op.name = "TorqueActuator" /\ err = NoErr) =>
        /\ op.args[3] \in Bodies => obj.target_frame = op.args[3].frame
        /\ op.args[4] \in Bodies => obj.reaction_frame = op.args[4].frame

C5_Witness ==
    /\ op.name = "set"
    /\ op.attr = "reaction_frame"
    /\ op.arg = RigidBody(ReferenceFrame("A"))
    /\ obj.reaction_frame = ReferenceFrame("A")
    /\ obj.target_frame = ReferenceFrame("N")

\* C6: an assignment of a wrongly typed value to a validated attribute raises
\* the TypeError of that attribute at once, in a later assignment and in a
\* constructor alike; to_loads() never raises it, because every attribute an
\* actuator holds has an accepted type.
C6_FailsAtAssignment ==
    /\ (op.name = "set" /\ WrongType(op.attr, op.arg)) => err = TypeError(op.attr)
    /\ (op.name = "ForceActuator" /\ WrongArgs(ForceAttrs, op.args) # {}) =>
            err.exc = "TypeError"
    /\ (op.name = "TorqueActuator" /\ WrongArgs(TorqueAttrs, op.args) # {}) =>
            err.exc = "TypeError"
    /\ op.name = "to_loads" => err = NoErr
    /\ IsForce =>
        /\ obj.force.type = "Expr"
        /\ obj.pathway.type = "PathwayBase"
    /\ IsTorque =>
        /\ obj.torque.type = "Expr"
        /\ obj.axis.type = "Vector"
        /\ obj.target_frame.type = "ReferenceFrame"
        /\ obj.reaction_frame.type \in {"ReferenceFrame", "NoneType"}

C6_Witness ==
    /\ op.name = "set"
    /\ op.attr = "target_frame"
    /\ op.arg = Num
    /\ err = TypeError("target_frame")
    /\ lists = <<>>

\* C7: a constructor call with a wrongly typed argument raises the TypeError
\* of the first such attribute in assignment order and binds no actuator; a
\* constructor call that returns binds an actuator whose every attribute is
\* assigned and holds the value (for a body, the frame) that was passed.
C7_AtomicConstruction ==
    /\ op.name = "ForceActuator" =>
        LET bad == WrongArgs(ForceAttrs, op.args) IN
        IF bad # {}
        THEN obj = NoObj /\ err = TypeError(ForceAttrs[FirstOf(bad)])
        ELSE /\ err = NoErr
             /\ obj = [cls |-> "ForceActuator", force |-> op.args[1],
                       pathway |-> op.args[2]]
    /\ op.name = "TorqueActuator" =>
        LET bad == WrongArgs(TorqueAttrs, op.args) IN
        IF bad # {}
        THEN obj = NoObj /\ err = TypeError(TorqueAttrs[FirstOf(bad)])
        ELSE /\ err = NoErr
             /\ IsTorque
             /\ obj.torque = op.args[1]
             /\ obj.axis = op.args[2]
             /\ obj.target_frame = FrameOf(op.args[3])
             /\ obj.reaction_frame = FrameOf(op.args[4])
    /\ IsForce => Unset \notin {obj.force, obj.pathway}
    /\ IsTorque =>
        Unset \notin {obj.torque, obj.axis, obj.target_frame, obj.reaction_frame}

C7_Witness ==
    /\ op.name = "TorqueActuator"
    /\ op.args[1] \in Exprs
    /\ op.args[2] = Num
    /\ op.args[3] = None
    /\ err = TypeError("axis")
    /\ obj = NoObj

\* C8: ActuatorBase() always raises, so no ActuatorBase instance is ever
\* bound: every actuator that exists is of a class that defines to_loads().
C8_BaseIsAbstract ==
    /\ obj.cls # "ActuatorBase"
    /\ op.name = "ActuatorBase" => (err = AbstractError /\ obj = NoObj)
    /\ obj # NoObj =>
        /\ "to_loads" \in DefinedConcrete(obj.cls)
        /\ abstractmethods(obj.cls) = {}

C8_Witness ==
    /\ op.name = "ActuatorBase"
    /\ err = AbstractError

\* C9: a to_loads() call leaves the actuator as it was, returns a list that
\* is none of the lists returned before, leaves those lists as they are,
\* returns what the call before it returned when nothing happened in between,
\* and returns what it would return had no list been returned or modified
\* before.
C9_ToLoadsPure ==
    [][op'.name = "to_loads" =>
        /\ obj' = obj
        /\ ret' \in DOMAIN lists'
        /\ ret' \notin DOMAIN lists
        /\ \A i \in DOMAIN lists : lists'[i] = lists[i]
        /\ op.name = "to_loads" => lists'[ret'] = lists[ret]
        /\ IsForce => lists'[ret'] = ForceActuator_to_loads(obj, <<>>).heap[1]
        /\ IsTorque => lists'[ret'] = TorqueActuator_to_loads(obj, <<>>).heap[1]
      ]_vars

C9_Witness ==
    /\ op.name = "to_loads"
    /\ IsTorque
    /\ ret = 2
    /\ lists[1] = <<>>
    /\ Len(lists[2]) = 2

\* C10: a to_loads() call that follows a successful reassignment returns the
\* loads of the attribute values as they are after it: the value just
\* assigned shows in the loads, one load is returned when reaction_frame is
\* now None and two otherwise; and reaction_frame = None is always accepted.
C10_CurrentValues ==
    [][/\ (op'.name = "set" /\ op'.attr = "reaction_frame" /\ op'.arg = None) =>
            (err' = NoErr /\ obj'.reaction_frame = None)
       /\ (op.name = "set" /\ err = NoErr /\ IsTorque /\ op'.name = "to_loads") =>
            LET L == lists'[ret'] IN
            /\ Len(L) = IF obj.reaction_frame = None THEN 1 ELSE 2
            /\ L[1] = Torque(obj.target_frame, Mul(obj.torque, obj.axis))
            /\ Len(L) = 2 =>
                 L[2] = Torque(obj.reaction_frame, VecNeg(Mul(obj.torque, obj.axis)))
            /\ op.attr = "torque" => L[1].vec = Mul(op.arg, obj.axis)
            /\ op.attr = "axis" => L[1].vec = Mul(obj.torque, op.arg)
            /\ (op.attr = "target_frame" /\ op.arg \in Frames) => L[1].loc = op.arg
            /\ (op.attr = "target_frame" /\ op.arg \in Bodies) => L[1].loc = op.arg.frame
            /\ (op.attr = "reaction_frame" /\ op.arg = None) => Len(L) = 1
            /\ (op.attr = "reaction_frame" /\ op.arg \in Frames) =>
                 (Len(L) = 2 /\ L[2].loc = op.arg)
            /\ (op.attr = "reaction_frame" /\ op.arg \in Bodies) =>
                 (Len(L) = 2 /\ L[2].loc = op.arg.frame)
      ]_vars

\* The reaction load is there in the first list and gone from the second,
\* returned once reaction_frame had been reassigned to None.
C10_Witness ==
    /\ op.name = "to_loads"
    /\ IsTorque
    /\ obj.reaction_frame = None
    /\ ret = 2
    /\ Len(lists[1]) = 2
    /\ Len(lists[2]) = 1

\* C11: an assignment that raises the TypeError leaves the actuator as it
\* was, the attribute assigned and every other one, and leaves the returned
\* lists alone, so to_loads() returns afterwards what it returned before.
C11_RejectedChangesNothing ==
    [][(op'.name = "set" /\ err'.exc = "TypeError") =>
        /\ WrongType(op'.attr, op'.arg)
        /\ obj' = obj
        /\ lists' = lists
        /\ ret' = ret
        /\ IsForce => ForceActuator_to_loads(obj', <<>>).heap[1] =
                          ForceActuator_to_loads(obj, <<>>).heap[1]
        /\ IsTorque => TorqueActuator_to_loads(obj', <<>>).heap[1] =
                           TorqueActuator_to_loads(obj, <<>>).heap[1]
      ]_vars

\* A rejected torque after to_loads() was called: the torque is still there.
C11_Witness ==
    /\ op.name = "set"
    /\ op.attr = "torque"
    /\ op.arg = Num
    /\ err = TypeError("torque")
    /\ obj.torque = Expr(2)
    /\ Len(lists) = 1
    /\ lists[1][1].vec = Mul(Expr(2), obj.axis)

====
